---------------------------- MODULE Spec2Model ----------------------------
(***************************************************************************)
(* bytekey: an encoder that serialises values into bytes whose unsigned    *)
(* lexicographic order is the order of the values (src/src/encoder.rs).    *)
(*                                                                         *)
(* A machine word of n bits is a sequence of n bits, most significant bit  *)
(* first (TLC's integers are 32 bits wide, the program's are up to 64).    *)
(* A byte of the output is a number in 0..255.  The state is the one the   *)
(* order tests of the crate build: two values of one type, and one         *)
(* Encoder over its own in-memory writer for each of them.                 *)
(***************************************************************************)
EXTENDS Integers, Sequences, FiniteSets, TLC

VARIABLES
    object,   \* object[e]: the value handed to encode() number e (e = 1, 2)
    writer,   \* writer[e]: the sink of Encoder e: [buf, calls, fail_at, err, failed]
    result    \* result[e]: "none" before encode() e ran, then "ok", "err" or "fail"

vars == <<object, writer, result>>

(***************************************************************************)
(* Bounds of the model.                                                    *)
(***************************************************************************)
\* Integer inputs are the values within Delta of 0, of +2^k and of -2^k.
Delta == 1

(***************************************************************************)
(* Machine words.                                                          *)
(***************************************************************************)
Min(x, y) == IF x <= y THEN x ELSE y

\* 2^k for the small k that fit TLC's integers.
Exp2(k) == 2 ^ k

\* The n-bit word of the literal x (0 <= x < 2^31), as in `1 << 4` or `0x11`.
Lit(n, x) == [i \in 1..n |-> IF n - i > 30 THEN 0 ELSE (x \div Exp2(n - i)) % 2]

\* TLC hands an operator its arguments unevaluated and evaluates them again
\* at every use.  The operators below use an argument once per bit, so each
\* binds its arguments first (x \in {a}): an argument is evaluated once.

\* Bitwise operators on words of one width.
BitXor(a, b) ==
    CHOOSE r \in {[i \in 1..Len(x) |-> (x[i] + y[i]) % 2] : x \in {a}, y \in {b}} : TRUE
BitOr(a, b) ==
    CHOOSE r \in {[i \in 1..Len(x) |-> IF x[i] + y[i] > 0 THEN 1 ELSE 0] :
                    x \in {a}, y \in {b}} : TRUE
BitAnd(a, b) ==
    CHOOSE r \in {[i \in 1..Len(x) |-> x[i] * y[i]] : x \in {a}, y \in {b}} : TRUE
BitNot(a) ==
    CHOOSE r \in {[i \in 1..Len(x) |-> 1 - x[i]] : x \in {a}} : TRUE

\* a << k, a >> k on an unsigned word, and a >> k on a signed word (the sign
\* bit is shifted in).
Shl(a, k) ==
    CHOOSE r \in {[i \in 1..Len(x) |-> IF i + k <= Len(x) THEN x[i + k] ELSE 0] :
                    x \in {a}} : TRUE
Shr(a, k) ==
    CHOOSE r \in {[i \in 1..Len(x) |-> IF i - k >= 1 THEN x[i - k] ELSE 0] :
                    x \in {a}} : TRUE
\* A logical shift where the code shifts a signed word: zeros come in.
Sar_logical(a, k) == Shr(a, k)
Sar(a, k) ==
    CHOOSE r \in {[i \in 1..Len(x) |-> IF i - k >= 1 THEN x[i - k] ELSE x[1]] :
                    x \in {a}} : TRUE

\* `a as uM` for M <= n: the low M bits.
Trunc(a, m) == CHOOSE r \in {SubSeq(x, Len(x) - m + 1, Len(x)) : x \in {a}} : TRUE

\* The big-endian bytes of a word of 8, 16, 32 or 64 bits.
BeBytes(a) ==
    CHOOSE r \in {
        [j \in 1..(Len(x) \div 8) |->
            LET o == 8 * (j - 1)
            IN  128 * x[o + 1] + 64 * x[o + 2] + 32 * x[o + 3] + 16 * x[o + 4]
                + 8 * x[o + 5] + 4 * x[o + 6] + 2 * x[o + 7] + x[o + 8]] :
        x \in {a}} : TRUE

\* Bit i (1 = most significant) of a byte string, and the word of its bits.
BitOfBytes(bytes, i) ==
    (bytes[((i - 1) \div 8) + 1] \div Exp2(7 - ((i - 1) % 8))) % 2
FromBeBytes(bytes) ==
    CHOOSE r \in {[i \in 1..(8 * Len(x)) |-> BitOfBytes(x, i)] : x \in {bytes}} : TRUE

\* A + B + cin on big-endian bytes, the carry out of the first byte dropped.
AddBytes(A, B, cin) ==
    CHOOSE r \in {
        LET m == Len(X)
            c[j \in 1..m] ==
                IF j = m THEN cin ELSE (X[j + 1] + Y[j + 1] + c[j + 1]) \div 256
        IN  [j \in 1..m |-> (X[j] + Y[j] + c[j]) % 256] :
        X \in {A}, Y \in {B}} : TRUE

\* a + b + cin modulo 2^n (the arithmetic of the build wraps).
WrappingAdd(a, b, cin) == FromBeBytes(AddBytes(BeBytes(a), BeBytes(b), cin))

WrappingSub(a, b) == WrappingAdd(a, BitNot(b), 1)
WrappingNeg(a) == WrappingSub(Lit(Len(a), 0), a)

\* The order of two sequences of numbers: -1, 0 or 1.  The first place where
\* they differ decides; a proper prefix is less.  This is the order of Vec<u8>
\* (and of memcmp with the length as tie-break), and on two words of one width
\* it is the order of the unsigned numbers they write.
SeqCmp(s, t) ==
    CHOOSE r \in {
        LET m == Min(Len(x), Len(y))
            d == {i \in 1..m : x[i] # y[i]}
        IN  IF d = {}
            THEN (IF Len(x) < Len(y) THEN -1 ELSE IF Len(x) > Len(y) THEN 1 ELSE 0)
            ELSE LET i == CHOOSE j \in d : \A k \in d : j <= k
                 IN  IF x[i] < y[i] THEN -1 ELSE 1 :
        x \in {s}, y \in {t}} : TRUE

\* The order of two signed (two's complement) words of one width.
SignedCmp(a, b) ==
    IF a[1] # b[1] THEN (IF a[1] = 1 THEN -1 ELSE 1) ELSE SeqCmp(a, b)

(***************************************************************************)
(* The sink: io::Writer.  A write that fails makes the operation return    *)
(* the error at once (try!), so nothing is written after it: err is set    *)
(* and every later write of the same encode() is skipped.  calls counts    *)
(* the writes the sink was asked for; the sink refuses its fail_at-th      *)
(* write (never, if fail_at is Never): any one write may be the one that   *)
(* fails.  failed: the task has failed (fail!) and runs no further.        *)
(***************************************************************************)
Never == 0

MemWriter == [buf |-> <<>>, calls |-> 0, fail_at |-> Never, err |-> FALSE, failed |-> FALSE]

\* A write that goes to the sink although an earlier one has failed.
write_after_error(w, bytes) ==
    CHOOSE r \in {
        IF x.failed THEN x
        ELSE IF x.calls + 1 = x.fail_at THEN [x EXCEPT !.err = TRUE, !.calls = @ + 1]
        ELSE [x EXCEPT !.buf = @ \o bytes, !.calls = @ + 1] :
        x \in {w}} : TRUE

write(w, bytes) ==
    CHOOSE r \in {
        IF x.err \/ x.failed THEN x
        ELSE IF x.calls + 1 = x.fail_at THEN [x EXCEPT !.err = TRUE, !.calls = @ + 1]
        ELSE [x EXCEPT !.buf = @ \o bytes, !.calls = @ + 1] :
        x \in {w}} : TRUE

\* fail!("Not yet implemented"): the task unwinds; the sink is not touched.
fail(w) == [w EXCEPT !.failed = TRUE]

write_u8(w, x) == write(w, BeBytes(x))
\* Only the low byte of the 16 bits is written.
write_be_u16_low_byte(w, x) == write(w, BeBytes(Trunc(x, 8)))
write_be_u16(w, x) == write(w, BeBytes(x))
write_be_u32(w, x) == write(w, BeBytes(x))
write_be_u64(w, x) == write(w, BeBytes(x))
write_i8(w, x) == write(w, BeBytes(x))
write_be_i16(w, x) == write(w, BeBytes(x))
write_be_i32(w, x) == write(w, BeBytes(x))
write_be_i64(w, x) == write(w, BeBytes(x))

(***************************************************************************)
(* Fixed-width integers.                                                   *)
(***************************************************************************)
\* i8::MIN, i16::MIN, i32::MIN, i64::MIN: the word with only the sign bit.
IntMin(n) == [i \in 1..n |-> IF i = 1 THEN 1 ELSE 0]

emit_u8(w, v) == write_u8(w, v)
emit_u16(w, v) == write_be_u16(w, v)
emit_u32(w, v) == write_be_u32(w, v)
emit_u64(w, v) == write_be_u64(w, v)

emit_i8(w, v) == write_i8(w, BitXor(v, IntMin(8)))
\* emit_i16 with the sign flip forgotten: the two's complement bytes as they are.
emit_i16_unflipped(w, v) == write_be_i16(w, v)
emit_i16(w, v) == write_be_i16(w, BitXor(v, IntMin(16)))
emit_i32(w, v) == write_be_i32(w, BitXor(v, IntMin(32)))
emit_i64(w, v) == write_be_i64(w, BitXor(v, IntMin(64)))


(***************************************************************************)
(* Variable-length unsigned integers.                                      *)
(***************************************************************************)
\* `a <= b` where the code has `a < b`: every bucket takes its upper bound too.
Le(a, b) == SeqCmp(a, b) <= 0
\* a < b on unsigned words of one width.
Lt(a, b) == SeqCmp(a, b) = -1

\* emit_var_u64 with the header of the 9-byte bucket shifted one bit short.
emit_var_u64_low_header(w, val) ==
    IF Lt(val, Shl(Lit(64, 1), 4)) THEN
        write_u8(w, Trunc(val, 8))
    ELSE IF Lt(val, Shl(Lit(64, 1), 12)) THEN
        write_be_u16(w, BitOr(Trunc(val, 16), Shl(Lit(16, 1), 12)))
    ELSE IF Lt(val, Shl(Lit(64, 1), 20)) THEN
        LET w1 == write_u8(w, BitOr(Trunc(Shr(val, 16), 8), Shl(Lit(8, 2), 4)))
        IN  write_be_u16(w1, Trunc(val, 16))
    ELSE IF Lt(val, Shl(Lit(64, 1), 28)) THEN
        write_be_u32(w, BitOr(Trunc(val, 32), Shl(Lit(32, 3), 28)))
    ELSE IF Lt(val, Shl(Lit(64, 1), 36)) THEN
        LET w1 == write_u8(w, BitOr(Trunc(Shr(val, 32), 8), Shl(Lit(8, 4), 4)))
        IN  write_be_u32(w1, Trunc(val, 32))
    ELSE IF Lt(val, Shl(Lit(64, 1), 44)) THEN
        LET w1 == write_be_u16(w, BitOr(Trunc(Shr(val, 32), 16), Shl(Lit(16, 5), 12)))
        IN  write_be_u32(w1, Trunc(val, 32))
    ELSE IF Lt(val, Shl(Lit(64, 1), 52)) THEN
        LET w1 == write_u8(w, BitOr(Trunc(Shr(val, 48), 8), Shl(Lit(8, 6), 4)))
            w2 == write_be_u16(w1, Trunc(Shr(val, 32), 16))
        IN  write_be_u32(w2, Trunc(val, 32))
    ELSE IF Lt(val, Shl(Lit(64, 1), 60)) THEN
        write_be_u64(w, BitOr(val, Shl(Lit(64, 7), 60)))
    ELSE
        LET w1 == write_u8(w, Shl(Lit(8, 8), 3))
        IN  write_be_u64(w1, val)

\* A later write sees the sink as the try! before it left it: after a failed
\* write the operation has returned, and write() leaves such a sink alone.
emit_var_u64(w, val) ==
    IF Lt(val, Shl(Lit(64, 1), 4)) THEN
        write_u8(w, Trunc(val, 8))
    ELSE IF Lt(val, Shl(Lit(64, 1), 12)) THEN
        write_be_u16(w, BitOr(Trunc(val, 16), Shl(Lit(16, 1), 12)))
    ELSE IF Lt(val, Shl(Lit(64, 1), 20)) THEN
        LET w1 == write_u8(w, BitOr(Trunc(Shr(val, 16), 8), Shl(Lit(8, 2), 4)))
        IN  write_be_u16(w1, Trunc(val, 16))
    ELSE IF Lt(val, Shl(Lit(64, 1), 28)) THEN
        write_be_u32(w, BitOr(Trunc(val, 32), Shl(Lit(32, 3), 28)))
    ELSE IF Lt(val, Shl(Lit(64, 1), 36)) THEN
        LET w1 == write_u8(w, BitOr(Trunc(Shr(val, 32), 8), Shl(Lit(8, 4), 4)))
        IN  write_be_u32(w1, Trunc(val, 32))
    ELSE IF Lt(val, Shl(Lit(64, 1), 44)) THEN
        LET w1 == write_be_u16(w, BitOr(Trunc(Shr(val, 32), 16), Shl(Lit(16, 5), 12)))
        IN  write_be_u32(w1, Trunc(val, 32))
    ELSE IF Lt(val, Shl(Lit(64, 1), 52)) THEN
        LET w1 == write_u8(w, BitOr(Trunc(Shr(val, 48), 8), Shl(Lit(8, 6), 4)))
            w2 == write_be_u16(w1, Trunc(Shr(val, 32), 16))
        IN  write_be_u32(w2, Trunc(val, 32))
    ELSE IF Lt(val, Shl(Lit(64, 1), 60)) THEN
        write_be_u64(w, BitOr(val, Shl(Lit(64, 7), 60)))
    ELSE
        LET w1 == write_u8(w, Shl(Lit(8, 8), 4))
        IN  write_be_u64(w1, val)

\* uint is 64 bits wide on the build the tests are written for (pow(2u, 64) - 1).
emit_uint(w, v) == emit_var_u64(w, v)

(***************************************************************************)
(* Variable-length signed integers.                                        *)
(***************************************************************************)
\* An abs that saturates: abs(i64::MIN) = i64::MAX.
abs_saturating(v) ==
    IF v[1] = 0 THEN v
    ELSE IF v = IntMin(Len(v)) THEN BitNot(v) ELSE WrappingNeg(v)

\* v.abs().  The negation wraps (the build has no overflow check), so
\* abs(i64::MIN) is i64::MIN, which `as u64` reads as 2^63: the image the
\* crate's own test expects of -2^63 is the one this gives.
abs(v) == IF v[1] = 1 THEN WrappingNeg(v) ELSE v

\* The println! of the code writes to the standard output, not to the sink.
emit_var_i64(w, v) ==
    CHOOSE r \in {
        IF Lt(val, Shl(Lit(64, 1), 3)) THEN
            LET masked == BitXor(BitOr(val, Shl(Lit(64, 16), 3)), mask)
            IN  write_u8(w, Trunc(masked, 8))
        ELSE IF Lt(val, Shl(Lit(64, 1), 11)) THEN
            LET masked == BitXor(BitOr(val, Shl(Lit(64, 17), 11)), mask)
            IN  write_be_u16(w, Trunc(masked, 16))
        ELSE IF Lt(val, Shl(Lit(64, 1), 19)) THEN
            LET masked == BitXor(BitOr(val, Shl(Lit(64, 18), 19)), mask)
                w1 == write_u8(w, Trunc(Shr(masked, 16), 8))
            IN  write_be_u16(w1, Trunc(masked, 16))
        ELSE IF Lt(val, Shl(Lit(64, 1), 27)) THEN
            LET masked == BitXor(BitOr(val, Shl(Lit(64, 19), 27)), mask)
            IN  write_be_u32(w, Trunc(masked, 32))
        ELSE IF Lt(val, Shl(Lit(64, 1), 35)) THEN
            LET masked == BitXor(BitOr(val, Shl(Lit(64, 20), 35)), mask)
                w1 == write_u8(w, Trunc(Shr(masked, 32), 8))
            IN  write_be_u32(w1, Trunc(masked, 32))
        ELSE IF Lt(val, Shl(Lit(64, 1), 43)) THEN
            LET masked == BitXor(BitOr(val, Shl(Lit(64, 21), 43)), mask)
                w1 == write_be_u16(w, Trunc(Shr(masked, 32), 16))
            IN  write_be_u32(w1, Trunc(masked, 32))
        ELSE IF Lt(val, Shl(Lit(64, 1), 51)) THEN
            LET masked == BitXor(BitOr(val, Shl(Lit(64, 22), 51)), mask)
                w1 == write_u8(w, Trunc(Shr(masked, 48), 8))
                w2 == write_be_u16(w1, Trunc(Shr(masked, 32), 16))
            IN  write_be_u32(w2, Trunc(masked, 32))
        ELSE IF Lt(val, Shl(Lit(64, 1), 59)) THEN
            LET masked == BitXor(BitOr(val, Shl(Lit(64, 23), 59)), mask)
            IN  write_be_u64(w, masked)
        ELSE
            LET w1 == write_u8(w, BitXor(Shl(Lit(8, 24), 3), Trunc(mask, 8)))
            IN  write_be_u64(w1, BitXor(val, mask)) :
        mask \in {Sar(v, 63)},
        val \in {WrappingSub(abs(v), BitAnd(Lit(64, 1), Sar(v, 63)))}} : TRUE

\* int is 64 bits wide on the build the tests are written for (pow(2i, 63) - 1).
\* emit_int through the unsigned encoder.
emit_int_as_unsigned(w, v) == emit_var_u64(w, v)

emit_int(w, v) == emit_var_i64(w, v)

(***************************************************************************)
(* Floating point numbers.  v is the IEEE-754 bit pattern (transmute).     *)
(***************************************************************************)
\* emit_f32 with only the sign bit flipped, also for negative numbers.
emit_f32_sign_only(w, v) == write_be_i32(w, BitXor(v, IntMin(32)))

emit_f32(w, v) ==
    CHOOSE r \in {write_be_i32(w, BitXor(val, t)) :
                    val \in {v}, t \in {BitOr(Sar(v, 31), IntMin(32))}} : TRUE

emit_f64(w, v) ==
    CHOOSE r \in {write_be_i64(w, BitXor(val, t)) :
                    val \in {v}, t \in {BitOr(Sar(v, 63), IntMin(64))}} : TRUE

(***************************************************************************)
(* Unit, booleans, characters and strings.                                 *)
(***************************************************************************)
emit_nil(w) == write(w, <<>>)

emit_bool(w, v) == write_u8(w, IF v THEN Lit(8, 1) ELSE Lit(8, 0))

\* The UTF-8 bytes of the code point c, as write_char produces them.
Utf8(c) ==
    IF c < 128 THEN <<c>>
    ELSE IF c < 2048 THEN <<192 + (c \div 64), 128 + (c % 64)>>
    ELSE IF c < 65536
         THEN <<224 + (c \div 4096), 128 + ((c \div 64) % 64), 128 + (c % 64)>>
    ELSE <<240 + (c \div 262144), 128 + ((c \div 4096) % 64),
           128 + ((c \div 64) % 64), 128 + (c % 64)>>

emit_char(w, v) == write(w, Utf8(v))

\* emit_str with a terminator above every byte instead of below.
emit_str_high_terminator(w, v) == write_u8(write(w, v), Lit(8, 255))

\* emit_str refusing a string with a NUL byte in it.
emit_str_nul_checked(w, v) ==
    IF \E i \in 1..Len(v) : v[i] = 0 THEN [w EXCEPT !.err = TRUE]
    ELSE write_u8(write(w, v), Lit(8, 0))

\* v: the bytes of the string (as_bytes).
emit_str(w, v) == write_u8(write(w, v), Lit(8, 0))

(***************************************************************************)
(* Values.  A value of any supported type is a record                      *)
(*   ty   : its type ("u8", ..., "tuple", "enum", ...),                    *)
(*   name : the name the derived Encodable passes (structs, variants),     *)
(*   data : the bits of a number, the bytes of a string,                   *)
(*   sub  : the fields of a composite.                                     *)
(***************************************************************************)
Scalar(ty, data) == [ty |-> ty, name |-> "", data |-> data, sub |-> <<>>]

UnsignedTypes == {"u8", "u16", "u32", "u64"}
SignedTypes == {"i8", "i16", "i32", "i64"}
FixedTypes == UnsignedTypes \cup SignedTypes
FloatTypes == {"f32", "f64"}

Width(ty) ==
    CASE ty \in {"u8", "i8"} -> 8
      [] ty \in {"u16", "i16"} -> 16
      [] ty \in {"u32", "i32", "f32"} -> 32
      [] ty \in {"u64", "i64", "f64", "uint", "int"} -> 64

(***************************************************************************)
(* encode(): the value announces itself to the Encoder, which writes to    *)
(* the sink.                                                               *)
(***************************************************************************)
Composite(ty, name, fields) == [ty |-> ty, name |-> name, data |-> <<>>, sub |-> fields]
Tuple(fields) == Composite("tuple", "", fields)
None == Composite("option", "", <<>>)
Some(x) == Composite("option", "", <<x>>)

\* A value of a variant of an enum: name is the name of the enum and of the
\* variant, id the index of the variant in the declaration, fields the payload.
Variant(name, id, fields) == [ty |-> "enum", name |-> name, data |-> Lit(64, id), sub |-> fields]
StructVariant(name, id, fields) == [Variant(name, id, fields) EXCEPT !.ty = "enum_struct"]

RECURSIVE Encode(_, _)
RECURSIVE Fields(_, _, _)

\* The closures f the derived Encodable passes stand for "encode this
\* value": f is the value (of a field) or the composite (whose fields the
\* closure encodes one after the other).
emit_enum_variant_arg(w, idx, f) == Encode(w, f)
emit_enum_struct_variant_field(w, name, idx, f) == Encode(w, f)
emit_struct_field(w, name, idx, f) == Encode(w, f)
emit_tuple_arg(w, idx, f) == Encode(w, f)
emit_tuple_struct_arg(w, idx, f) == emit_struct_field(w, "", idx, f)

\* emit_enum_variant with the tag a fixed byte.
emit_enum_variant_u8_tag(w, name, id, len, f) == Fields(emit_u8(w, Trunc(id, 8)), f, 1)

emit_enum_variant(w, name, id, len, f) == Fields(emit_uint(w, id), f, 1)
emit_enum_struct_variant(w, name, id, len, f) == Fields(emit_uint(w, id), f, 1)
emit_enum(w, name, f) ==
    IF f.ty = "enum" THEN emit_enum_variant(w, f.name, f.data, Len(f.sub), f)
    ELSE emit_enum_struct_variant(w, f.name, f.data, Len(f.sub), f)

emit_struct(w, name, len, f) == Fields(w, f, 1)
emit_tuple(w, len, f) == Fields(w, f, 1)
emit_tuple_struct(w, name, len, f) == emit_struct(w, name, len, f)

\* emit_seq implemented the way emit_seq_elt is: the closure runs.
emit_seq_passthrough(w, len, f) == Fields(w, f, 1)

\* Sequences and maps: not implemented, the closure f is dropped.
emit_seq(w, len, f) == fail(w)
emit_seq_elt(w, idx, f) == Encode(w, f)
emit_map(w, len, f) == fail(w)
emit_map_elt_key(w, idx, f) == fail(w)
emit_map_elt_val(w, idx, f) == fail(w)

emit_option_none(w) == emit_bool(w, FALSE)

\* emit_option_some without the presence byte.
emit_option_some_untagged(w, f) == Encode(w, f)

emit_option_some(w, f) == Encode(emit_bool(w, TRUE), f)
emit_option(w, f) ==
    IF f.sub = <<>> THEN emit_option_none(w) ELSE emit_option_some(w, f.sub[1])

\* The fields i, i+1, ... of the composite v, each through the callback of
\* its kind; a failed write ends the sequence (try!).
Fields(w, v, i) ==
    IF i > Len(v.sub) THEN w
    ELSE LET w1 ==
               CASE v.ty = "tuple" -> emit_tuple_arg(w, i - 1, v.sub[i])
                 [] v.ty = "struct" -> emit_struct_field(w, "", i - 1, v.sub[i])
                 [] v.ty = "tuple_struct" -> emit_tuple_struct_arg(w, i - 1, v.sub[i])
                 [] v.ty = "enum" -> emit_enum_variant_arg(w, i - 1, v.sub[i])
                 [] v.ty = "enum_struct" ->
                        emit_enum_struct_variant_field(w, "", i - 1, v.sub[i])
                 [] v.ty = "seq" -> emit_seq_elt(w, i - 1, v.sub[i])
                 [] v.ty = "map" ->
                        IF i % 2 = 1 THEN emit_map_elt_key(w, (i - 1) \div 2, v.sub[i])
                        ELSE emit_map_elt_val(w, (i - 1) \div 2, v.sub[i])
         IN  Fields(w1, v, i + 1)

Encode(w, v) ==
    CASE v.ty = "u8" -> emit_u8(w, v.data)
      [] v.ty = "u16" -> emit_u16(w, v.data)
      [] v.ty = "u32" -> emit_u32(w, v.data)
      [] v.ty = "u64" -> emit_u64(w, v.data)
      [] v.ty = "i8" -> emit_i8(w, v.data)
      [] v.ty = "i16" -> emit_i16(w, v.data)
      [] v.ty = "i32" -> emit_i32(w, v.data)
      [] v.ty = "i64" -> emit_i64(w, v.data)
      [] v.ty = "uint" -> emit_uint(w, v.data)
      [] v.ty = "int" -> emit_int(w, v.data)
      [] v.ty = "f32" -> emit_f32(w, v.data)
      [] v.ty = "f64" -> emit_f64(w, v.data)
      [] v.ty = "nil" -> emit_nil(w)
      [] v.ty = "bool" -> emit_bool(w, v.data)
      [] v.ty = "char" -> emit_char(w, v.data)
      [] v.ty = "str" -> emit_str(w, v.data)
      [] v.ty = "tuple" -> emit_tuple(w, Len(v.sub), v)
      [] v.ty = "struct" -> emit_struct(w, v.name, Len(v.sub), v)
      [] v.ty = "tuple_struct" -> emit_tuple_struct(w, v.name, Len(v.sub), v)
      [] v.ty = "option" -> emit_option(w, v)
      [] v.ty \in {"enum", "enum_struct"} -> emit_enum(w, v.name, v)
      [] v.ty = "seq" -> emit_seq(w, Len(v.sub), v)
      [] v.ty = "map" -> emit_map(w, Len(v.sub) \div 2, v)
      [] v.ty = "seq_elt" -> emit_seq_elt(w, 0, v.sub[1])
      [] v.ty = "map_elt_key" -> emit_map_elt_key(w, 0, v.sub[1])
      [] v.ty = "map_elt_val" -> emit_map_elt_val(w, 0, v.sub[1])

(***************************************************************************)
(* The natural order of the values: a.cmp(&b) of the tests.                *)
(***************************************************************************)
\* The IEEE-754 total order on bit patterns: a negative pattern is below a
\* non-negative one, two non-negative ones are ordered as their magnitudes
\* (exponent, then mantissa), two negative ones the other way round:
\* -NaN < -inf < ... < -0 < +0 < ... < +inf < +NaN.
FloatTotalCmp(a, b) ==
    IF a[1] # b[1] THEN (IF a[1] = 1 THEN -1 ELSE 1)
    ELSE IF a[1] = 0 THEN SeqCmp(a, b) ELSE SeqCmp(b, a)

RECURSIVE ValueCmp(_, _)
RECURSIVE FieldsCmp(_, _, _)

\* Field by field from field i on (the derived PartialOrd); Option: None
\* is below Some.
FieldsCmp(a, b, i) ==
    IF i > Len(a) /\ i > Len(b) THEN 0
    ELSE IF i > Len(a) THEN -1
    ELSE IF i > Len(b) THEN 1
    ELSE LET c == ValueCmp(a[i], b[i])
         IN  IF c # 0 THEN c ELSE FieldsCmp(a, b, i + 1)

ValueCmp(a, b) ==
    CASE a.ty \in UnsignedTypes -> SeqCmp(a.data, b.data)
      [] a.ty \in SignedTypes -> SignedCmp(a.data, b.data)
      [] a.ty = "uint" -> SeqCmp(a.data, b.data)
      [] a.ty = "int" -> SignedCmp(a.data, b.data)
      [] a.ty \in FloatTypes -> FloatTotalCmp(a.data, b.data)
      [] a.ty = "nil" -> 0
      [] a.ty = "bool" -> IF a.data = b.data THEN 0 ELSE IF b.data THEN -1 ELSE 1
      [] a.ty = "char" -> IF a.data = b.data THEN 0 ELSE IF a.data < b.data THEN -1 ELSE 1
      [] a.ty = "str" -> SeqCmp(a.data, b.data)
      [] a.ty \in {"tuple", "struct", "tuple_struct", "option"} -> FieldsCmp(a.sub, b.sub, 1)
      [] a.ty \in {"enum", "enum_struct"} ->
            LET c == SeqCmp(a.data, b.data)
            IN  IF c # 0 THEN c ELSE FieldsCmp(a.sub, b.sub, 1)

(***************************************************************************)
(* Inputs.                                                                 *)
(***************************************************************************)
Pow2(n, k) == Shl(Lit(n, 1), k)

\* b + d for a small d of either sign, modulo 2^n.
AddSmall(b, d) ==
    IF d >= 0 THEN WrappingAdd(b, Lit(Len(b), d), 0)
    ELSE WrappingSub(b, Lit(Len(b), -d))

\* The n-bit words within Delta of 0, of 2^k and of -2^k, for k in exps.
Samples(n, exps) ==
    LET bases == {Lit(n, 0)} \cup {Pow2(n, k) : k \in exps}
                 \cup {WrappingNeg(Pow2(n, k)) : k \in exps}
    IN  {AddSmall(b, d) : b \in bases, d \in (-Delta)..Delta}

\* Fixed-width integers: around every byte boundary and around the sign bit.
FixedExps(n) == {k \in 0..(n - 1) : k % 8 \in {0, 7}}
FixedValues(ty) == {Scalar(ty, x) : x \in Samples(Width(ty), FixedExps(Width(ty)))}

(***************************************************************************)
(* The state machine: encode(&a) and encode(&b), each into a new writer.   *)
(***************************************************************************)
Encoders == {1, 2}

\* domains: for each type (or shape) tried, the set of its values.
InitWith(domains) ==
    /\ \E D \in domains : object \in [Encoders -> D]
    /\ writer = [e \in Encoders |-> MemWriter]
    /\ result = [e \in Encoders |-> "none"]

\* The two calls run one after the other, as the arguments of cmp are
\* evaluated; a call that fails (fail!) ends the task, an Err is returned to
\* the caller.
encode(e) ==
    /\ result[e] = "none"
    /\ \A d \in Encoders : d < e => result[d] \in {"ok", "err"}
    /\ LET w == Encode(writer[e], object[e])
       IN  /\ writer' = [writer EXCEPT ![e] = w]
           /\ result' = [result EXCEPT ![e] =
                             IF w.failed THEN "fail" ELSE IF w.err THEN "err" ELSE "ok"]
    /\ UNCHANGED object

Next == \E e \in Encoders : encode(e)

InitFixed == InitWith({FixedValues(ty) : ty \in FixedTypes})
SpecFixed == InitFixed /\ [][Next]_vars

Done == \A e \in Encoders : result[e] = "ok"
Image(e) == writer[e].buf


(***************************************************************************)
(* Fixed-width integers: order and format.                                 *)
(***************************************************************************)
BothFixed == Done /\ object[1].ty \in FixedTypes /\ object[2].ty = object[1].ty

\* The i8 of the small number x in -128..127.
I8(x) == Scalar("i8", Lit(8, IF x < 0 THEN x + 256 ELSE x))

\* C1: for every fixed-width integer type and every pair a, b of it, the
\* order of encode(a) and encode(b) as byte strings is the order of a and b;
\* the image of an unsigned value is its n/8 big-endian bytes, the image of
\* a signed value the big-endian bytes of v XOR 2^(n-1): bit for bit the
\* value with the sign bit inverted (i8: -128 -> 00, -1 -> 7F, 0 -> 80,
\* 127 -> FF).
FixedWidthOrder ==
    /\ \A e \in Encoders :
          (result[e] = "ok" /\ object[e].ty \in FixedTypes) =>
              LET n == Width(object[e].ty)
                  v == object[e].data
              IN  /\ Len(Image(e)) = n \div 8
                  /\ \A j \in 1..Len(Image(e)) : Image(e)[j] \in 0..255
                  /\ \A i \in 1..n :
                        BitOfBytes(Image(e), i) =
                            IF object[e].ty \in SignedTypes /\ i = 1
                            THEN 1 - v[i] ELSE v[i]
                  /\ (object[e] = I8(-128) => Image(e) = <<0>>)
                  /\ (object[e] = I8(-1) => Image(e) = <<127>>)
                  /\ (object[e] = I8(0) => Image(e) = <<128>>)
                  /\ (object[e] = I8(127) => Image(e) = <<255>>)
    /\ BothFixed => SeqCmp(Image(1), Image(2)) = ValueCmp(object[1], object[2])

\* A negative and a non-negative i64 whose images are in the order of the values.
FixedWidthOrderWitness ==
    /\ BothFixed
    /\ object[1] = Scalar("i64", BitNot(Lit(64, 0)))
    /\ object[2] = Scalar("i64", Lit(64, 256))
    /\ Image(1) = <<127, 255, 255, 255, 255, 255, 255, 255>>
    /\ Image(2) = <<128, 0, 0, 0, 0, 0, 1, 0>>
    /\ ValueCmp(object[1], object[2]) = -1


(***************************************************************************)
(* Variable-length unsigned integers: order and format.                    *)
(***************************************************************************)
\* Around every bucket boundary 2^(8L+4), L = 0..7.
VarUExps == {8 * l + 4 : l \in 0..7}
VarUValues == {Scalar("uint", x) : x \in Samples(64, VarUExps)}

InitVarU == InitWith({VarUValues})
SpecVarU == InitVarU /\ [][Next]_vars

BothVarU == Done /\ object[1].ty = "uint" /\ object[2].ty = "uint"

\* The least L in 0..8 with v < 2^(8L+4): no bit of v at 2^(8L+4) or above.
VarULen(v) ==
    CHOOSE l \in 0..8 :
        /\ \A i \in 1..(60 - 8 * l) : v[i] = 0
        /\ \A m \in 0..(l - 1) : \E i \in 1..(60 - 8 * m) : v[i] = 1

\* C2: emit_var_u64 preserves order over u64: the byte order of the images
\* of a and b is the order of a and b, also across length buckets (a shorter
\* image of a smaller value is less than a longer image of a larger one).
VarU64Order ==
    BothVarU =>
        /\ SeqCmp(Image(1), Image(2)) = ValueCmp(object[1], object[2])
        /\ (Lt(object[1].data, object[2].data) /\ Len(Image(1)) < Len(Image(2))) =>
              SeqCmp(Image(1), Image(2)) = -1

\* 2^12 - 1 (2 bytes) and 2^12 (3 bytes): two buckets, images in value order.
VarU64OrderWitness ==
    /\ BothVarU
    /\ object[1].data = AddSmall(Pow2(64, 12), -1)
    /\ object[2].data = Pow2(64, 12)
    /\ Image(1) = <<31, 255>>
    /\ Image(2) = <<32, 16, 0>>
    /\ SeqCmp(Image(1), Image(2)) = -1

\* C4: emit_var_u64 writes 1+L bytes, L the least with v < 2^(8L+4) (8 from
\* 2^60 on); the high nibble of the first byte is L and the other 8L+4 bits
\* are v in big-endian (for L = 8: 0x80, then the 8 bytes of v).
VarU64Format ==
    \A e \in Encoders :
        (result[e] = "ok" /\ object[e].ty = "uint") =>
            \A v \in {object[e].data}, img \in {Image(e)} :
            \A l \in {VarULen(v)} :
                /\ Len(img) = 1 + l
                /\ \A j \in 1..Len(img) : img[j] \in 0..255
                /\ img[1] \div 16 = l
                /\ \A i \in 5..(8 * (1 + l)) :
                      LET p == 64 - (8 * (1 + l) - i)
                      IN  BitOfBytes(img, i) = IF p >= 1 THEN v[p] ELSE 0
                /\ (l = 8 => img = <<128>> \o BeBytes(v))
                /\ (v = Lit(64, 0) => img = <<0>>)
                /\ (v = Lit(64, 15) => img = <<15>>)
                /\ (v = Lit(64, 16) => img = <<16, 16>>)
                /\ (v = Lit(64, 4095) => img = <<31, 255>>)
                /\ (v = Pow2(64, 60) => img = <<128, 16, 0, 0, 0, 0, 0, 0, 0>>)
                /\ (v = BitNot(Lit(64, 0)) =>
                      img = <<128, 255, 255, 255, 255, 255, 255, 255, 255>>)

\* 2^60 and 2^64 - 1, both in the 9-byte bucket.
VarU64FormatWitness ==
    /\ BothVarU
    /\ object[1].data = Pow2(64, 60)
    /\ Image(1) = <<128, 16, 0, 0, 0, 0, 0, 0, 0>>
    /\ object[2].data = BitNot(Lit(64, 0))
    /\ Image(2) = <<128, 255, 255, 255, 255, 255, 255, 255, 255>>


(***************************************************************************)
(* Variable-length signed integers: order and format.                      *)
(***************************************************************************)
\* Around every bucket boundary +/-2^(8L+3), L = 0..7, and around i64::MIN.
VarIExps == {8 * l + 3 : l \in 0..7} \cup {63}
VarIValues == {Scalar("int", x) : x \in Samples(64, VarIExps)}

InitVarI == InitWith({VarIValues})
SpecVarI == InitVarI /\ [][Next]_vars

BothVarI == Done /\ object[1].ty = "int" /\ object[2].ty = "int"

\* The i64 of the small number x, of either sign (-x is NOT (x - 1)).
I64(x) == IF x >= 0 THEN Lit(64, x) ELSE BitNot(Lit(64, (-x) - 1))

\* m: v for v >= 0, |v| - 1 for v < 0 (in two's complement, every bit of v
\* inverted).
VarIMagnitude(v) == IF v[1] = 1 THEN BitNot(v) ELSE v

\* The least L in 0..8 with m < 2^(8L+3): no bit of m at 2^(8L+3) or above.
VarILen(m) ==
    CHOOSE l \in 0..8 :
        /\ \A i \in 1..(61 - 8 * l) : m[i] = 0
        /\ \A k \in 0..(l - 1) : \E i \in 1..(61 - 8 * k) : m[i] = 1

\* C3: emit_var_i64 preserves order over i64, i64::MIN included: the byte
\* order of the images of a and b is the order of a and b, for opposite
\* signs and across buckets; a more negative value sorts earlier, and the
\* image of -1 (7F) comes immediately before the image of 0 (80): no image
\* lies between them.
VarI64Order ==
    /\ BothVarI => SeqCmp(Image(1), Image(2)) = ValueCmp(object[1], object[2])
    /\ \A e \in Encoders :
          (result[e] = "ok" /\ object[e].ty = "int") =>
              /\ (object[e].data = I64(-1) => Image(e) = <<127>>)
              /\ (object[e].data = I64(0) => Image(e) = <<128>>)
              /\ ~ (SeqCmp(<<127>>, Image(e)) = -1 /\ SeqCmp(Image(e), <<128>>) = -1)

\* i64::MIN against -2^59 - 1: both negative, both 9 bytes, the more
\* negative first.
VarI64OrderWitness ==
    /\ BothVarI
    /\ object[1].data = IntMin(64)
    /\ object[2].data = AddSmall(WrappingNeg(Pow2(64, 59)), -1)
    /\ Image(1) = <<63, 128, 0, 0, 0, 0, 0, 0, 0>>
    /\ Image(2) = <<63, 247, 255, 255, 255, 255, 255, 255, 255>>
    /\ SeqCmp(Image(1), Image(2)) = -1

\* C5: with m = v for v >= 0 and |v| - 1 for v < 0, and L the least with
\* m < 2^(8L+3) (8 from 2^59 on), emit_var_i64 writes 1+L bytes: as one bit
\* string, the sign bit 1, the 4-bit code L, then m in the other 8L+3 bits,
\* and for v < 0 every bit of that complemented.  So 1 byte for [-2^3, 2^3),
\* 2 bytes for [-2^11, -2^3) and [2^3, 2^11), ..., 9 bytes from 2^59 and
\* below -2^59.
VarI64Format ==
    \A e \in Encoders :
        (result[e] = "ok" /\ object[e].ty = "int") =>
            \A v \in {object[e].data}, img \in {Image(e)} :
            \A m \in {VarIMagnitude(v)} :
            \A l \in {VarILen(m)} :
                LET plain(i) ==
                        IF i = 1 THEN 1
                        ELSE IF i <= 5 THEN (l \div Exp2(5 - i)) % 2
                        ELSE LET p == 64 - (8 * (1 + l) - i)
                             IN  IF p >= 1 THEN m[p] ELSE 0
                IN  /\ Len(img) = 1 + l
                    /\ \A j \in 1..Len(img) : img[j] \in 0..255
                    /\ \A i \in 1..(8 * (1 + l)) :
                          BitOfBytes(img, i) =
                              IF v[1] = 1 THEN 1 - plain(i) ELSE plain(i)
                    /\ (v = I64(0) => img = <<128>>)
                    /\ (v = I64(7) => img = <<135>>)
                    /\ (v = I64(8) => img = <<136, 8>>)
                    /\ (v = BitNot(IntMin(64)) =>
                          img = <<192, 127, 255, 255, 255, 255, 255, 255, 255>>)
                    /\ (v = I64(-1) => img = <<127>>)
                    /\ (v = I64(-8) => img = <<120>>)
                    /\ (v = I64(-9) => img = <<119, 247>>)
                    /\ (v = IntMin(64) => img = <<63, 128, 0, 0, 0, 0, 0, 0, 0>>)

\* -9 (the first 2-byte negative) and i64::MIN (where abs() overflows).
VarI64FormatWitness ==
    /\ BothVarI
    /\ object[1].data = I64(-9)
    /\ Image(1) = <<119, 247>>
    /\ object[2].data = IntMin(64)
    /\ Image(2) = <<63, 128, 0, 0, 0, 0, 0, 0, 0>>


(***************************************************************************)
(* Floating point numbers: order and format.                               *)
(***************************************************************************)
ExpBits(ty) == IF ty = "f32" THEN 8 ELSE 11
MantBits(ty) == IF ty = "f32" THEN 23 ELSE 52

\* The n-bit fields within Delta of all zeros and of all ones, and the field
\* 100...0 (in a mantissa, the quiet bit of a NaN) and 011...1 (the exponent
\* of 1.0).
FieldSamples(n) ==
    {Lit(n, d) : d \in 0..Delta} \cup {BitNot(Lit(n, d)) : d \in 0..Delta}
    \cup {Pow2(n, n - 1), BitNot(Pow2(n, n - 1))}

\* Bit patterns: sign, exponent, mantissa.
FloatValues(ty) ==
    {Scalar(ty, <<s>> \o ex \o mant) :
        s \in {0, 1}, ex \in FieldSamples(ExpBits(ty)), mant \in FieldSamples(MantBits(ty))}

InitFloat == InitWith({FloatValues(ty) : ty \in FloatTypes})
SpecFloat == InitFloat /\ [][Next]_vars

BothFloat == Done /\ object[1].ty \in FloatTypes /\ object[2].ty = object[1].ty

Exponent(v) == SubSeq(v.data, 2, 1 + ExpBits(v.ty))
Mantissa(v) == SubSeq(v.data, 2 + ExpBits(v.ty), Width(v.ty))
IsNaN(v) ==
    /\ \A i \in 1..ExpBits(v.ty) : Exponent(v)[i] = 1
    /\ \E i \in 1..MantBits(v.ty) : Mantissa(v)[i] = 1
IsInfinite(v) ==
    /\ \A i \in 1..ExpBits(v.ty) : Exponent(v)[i] = 1
    /\ \A i \in 1..MantBits(v.ty) : Mantissa(v)[i] = 0
IsZero(v) == \A i \in 2..Width(v.ty) : v.data[i] = 0
IsNegative(v) == v.data[1] = 1

\* The images of -0.0 and of +0.0: 7F FF .. FF and 80 00 .. 00.
NegZeroImage(ty) == [j \in 1..(Width(ty) \div 8) |-> IF j = 1 THEN 127 ELSE 255]
PosZeroImage(ty) == [j \in 1..(Width(ty) \div 8) |-> IF j = 1 THEN 128 ELSE 0]

\* C6: emit_f32 and emit_f64 write the big-endian bytes of bits XOR (s | MSB),
\* s the sign bit spread over the word: every bit inverted for a negative
\* pattern, the sign bit alone otherwise.  The byte order of two images is
\* the IEEE total order of the patterns, -NaN < -inf < ... < -0 < +0 < ... <
\* +inf < +NaN; -0.0 is strictly below +0.0 and no image lies between theirs.
FloatTotalOrder ==
    /\ \A e \in Encoders :
          (result[e] = "ok" /\ object[e].ty \in FloatTypes) =>
              \A v \in {object[e].data}, img \in {Image(e)} :
                  /\ Len(img) = Len(v) \div 8
                  /\ \A i \in 1..Len(v) :
                        BitOfBytes(img, i) =
                            IF v[1] = 1 \/ i = 1 THEN 1 - v[i] ELSE v[i]
                  /\ (IsZero(object[e]) /\ IsNegative(object[e])) =>
                        img = NegZeroImage(object[e].ty)
                  /\ (IsZero(object[e]) /\ ~ IsNegative(object[e])) =>
                        img = PosZeroImage(object[e].ty)
                  /\ ~ /\ SeqCmp(NegZeroImage(object[e].ty), img) = -1
                       /\ SeqCmp(img, PosZeroImage(object[e].ty)) = -1
    /\ BothFloat =>
          /\ SeqCmp(Image(1), Image(2)) = FloatTotalCmp(object[1].data, object[2].data)
          /\ (IsNaN(object[1]) /\ IsNegative(object[1]) /\ ~ IsNaN(object[2])) =>
                SeqCmp(Image(1), Image(2)) = -1
          /\ (IsNaN(object[2]) /\ ~ IsNegative(object[2]) /\ ~ IsNaN(object[1])) =>
                SeqCmp(Image(1), Image(2)) = -1
          /\ (IsInfinite(object[1]) /\ IsNegative(object[1])
                /\ ~ IsNaN(object[2]) /\ object[2] # object[1]) =>
                SeqCmp(Image(1), Image(2)) = -1

\* -0.0 and +0.0 as f64: adjacent images, in this order.
FloatTotalOrderWitness ==
    /\ BothFloat
    /\ object[1] = Scalar("f64", IntMin(64))
    /\ object[2] = Scalar("f64", Lit(64, 0))
    /\ Image(1) = <<127, 255, 255, 255, 255, 255, 255, 255>>
    /\ Image(2) = <<128, 0, 0, 0, 0, 0, 0, 0>>
    /\ SeqCmp(Image(1), Image(2)) = -1

\* C7: NaN values sort after all other values: for every NaN pattern n, of
\* either sign, and every other value x of the same width that is not a NaN,
\* encode(x) < encode(n).
NaNSortsLast ==
    (BothFloat /\ IsNaN(object[1]) /\ ~ IsNaN(object[2])) =>
        SeqCmp(Image(2), Image(1)) = -1


(***************************************************************************)
(* Strings: order and format.                                              *)
(***************************************************************************)
MaxStrLen == 3

\* NUL, "a" and "b".
StrAlphabet == {0, 97, 98}

\* The byte strings of at most n bytes over the alphabet.
StringsOver(alphabet, n) == UNION {[1..l -> alphabet] : l \in 0..n}
Strings(n) == StringsOver(StrAlphabet, n)

StrValues == {Scalar("str", x) : x \in Strings(MaxStrLen)}

InitStr == InitWith({StrValues})
SpecStr == InitStr /\ [][Next]_vars

BothStr == Done /\ object[1].ty = "str" /\ object[2].ty = "str"

\* C8: emit_str writes the bytes of the string unchanged, then exactly one
\* 00 byte; for two strings encoded alone (the string is the whole key, so
\* its final component), with or without NUL bytes in them, the order of
\* the images is the byte-wise order of the strings, which is the order of
\* a ++ <<0>> and b ++ <<0>>: a proper prefix stays below ("ab" < "abb",
\* "a" < "a\0").
StrOrder ==
    /\ \A e \in Encoders :
          (result[e] = "ok" /\ object[e].ty = "str") =>
              Image(e) = object[e].data \o <<0>>
    /\ BothStr =>
          \A a \in {object[1].data}, b \in {object[2].data} :
              /\ SeqCmp(Image(1), Image(2)) = SeqCmp(a, b)
              /\ SeqCmp(a \o <<0>>, b \o <<0>>) = SeqCmp(a, b)

\* "a" and "a\0": a string and the same string with a NUL appended.
StrOrderWitness ==
    /\ BothStr
    /\ object[1].data = <<97>>
    /\ object[2].data = <<97, 0>>
    /\ Image(1) = <<97, 0>>
    /\ Image(2) = <<97, 0, 0>>
    /\ SeqCmp(Image(1), Image(2)) = -1


(***************************************************************************)
(* Tuples, structs and options: order and format.                          *)
(***************************************************************************)
KeyStrLen == 2

\* NUL and "a".
KeyAlphabet == {0, 97}

\* Words of n bits: 0, 1, the sign bit alone, all ones.
KeyWords(n) == {Lit(n, 0), Lit(n, 1), IntMin(n), BitNot(Lit(n, 0))}

\* The first and the last code point of every UTF-8 length.
KeyChars == {0, 127, 128, 2047, 2048, 65535, 65536, 1114111}

\* The values of a scalar type used as fields of keys; strings of at most
\* n bytes.
KeyScalars(ty, n) ==
    CASE ty \in FixedTypes \cup FloatTypes -> {Scalar(ty, x) : x \in KeyWords(Width(ty))}
      [] ty \in {"uint", "int"} ->
            {Scalar(ty, x) : x \in KeyWords(64) \cup {Lit(64, 16), BitNot(Lit(64, 16))}}
      [] ty = "bool" -> {Scalar(ty, x) : x \in BOOLEAN}
      [] ty = "char" -> {Scalar(ty, x) : x \in KeyChars}
      [] ty = "nil" -> {Scalar(ty, <<>>)}
      [] ty = "str" -> {Scalar(ty, x) : x \in StringsOver(KeyAlphabet, n)}

K(ty) == KeyScalars(ty, KeyStrLen)

RECURSIVE Product(_)
\* The sequences with an element of ss[i] at every i.
Product(ss) ==
    IF ss = <<>> THEN {<<>>}
    ELSE {<<x>> \o r : x \in Head(ss), r \in Product(Tail(ss))}

Tuples(ss) == {Tuple(fs) : fs \in Product(ss)}
Structs(ty, name, ss) == {Composite(ty, name, fs) : fs \in Product(ss)}
Options(S) == {None} \cup {Some(x) : x \in S}

\* 42u8 and "fizz".
FortyTwo == Scalar("u8", Lit(8, 42))
Fizz == Scalar("str", <<102, 105, 122, 122>>)

\* The shapes of keys tried: every scalar type is a field of one of them;
\* strings are final, not final, and both; options and tuples are nested.
KeyShapes ==
    { Tuples(<<K("u8") \cup {FortyTwo}, K("str") \cup {Fizz}>>),
      Tuples(<<K("str"), K("u8")>>),
      Tuples(<<KeyScalars("str", KeyStrLen - 1), K("str")>>),
      Options(K("str")),
      Tuples(<<K("str"), Options(K("bool"))>>),
      Structs("struct", "TestStruct", <<K("uint"), K("i16"), K("bool")>>),
      Tuples(<<Options(K("int")), K("char")>>),
      Structs("struct", "Nested", <<K("f32"), Tuples(<<Options(K("str")), K("nil")>>)>>),
      Tuples(<<K("i64"), K("f64"), K("u32")>>),
      Options(Options(K("bool"))),
      Structs("tuple_struct", "Pair", <<K("u16"), K("i32")>>),
      Tuples(<<K("i8"), K("u64")>>),
      Tuples(<<>>) }

InitKey == InitWith(KeyShapes)
SpecKey == InitKey /\ [][Next]_vars

KeyTypes == {"tuple", "struct", "tuple_struct", "option"}
BothKey == Done /\ object[1].ty \in KeyTypes /\ object[2].ty = object[1].ty

RECURSIVE Leaves(_)
\* The fields of the whole key from left to right: the scalars, the None's
\* and the empty composites.
Leaves(v) ==
    IF v.sub = <<>> THEN <<v>>
    ELSE LET cat[i \in 0..Len(v.sub)] ==
                 IF i = 0 THEN <<>> ELSE cat[i - 1] \o Leaves(v.sub[i])
         IN  cat[Len(v.sub)]

HasNul(v) == v.ty = "str" /\ \E i \in 1..Len(v.data) : v.data[i] = 0

\* No string other than the final field of the whole key contains a NUL.
NulOnlyLast(v) ==
    \A L \in {Leaves(v)} : \A i \in 1..(Len(L) - 1) : ~ HasNul(L[i])

RECURSIVE Flat(_)
\* The image the format prescribes: fields one after the other and nothing
\* else, 00 for None, 01 and the image of x for Some(x).
Flat(v) ==
    IF v.ty = "option"
    THEN (IF v.sub = <<>> THEN <<0>> ELSE <<1>> \o Flat(v.sub[1]))
    ELSE IF v.ty \in KeyTypes
    THEN LET cat[i \in 0..Len(v.sub)] ==
                 IF i = 0 THEN <<>> ELSE cat[i - 1] \o Flat(v.sub[i])
         IN  cat[Len(v.sub)]
    ELSE Encode(MemWriter, v).buf

\* C9: the image of a tuple or struct is the images of its fields one after
\* the other in declaration order, with nothing before, between or after
\* them ((42u8, "fizz") -> 2A 66 69 7A 7A 00); the image of an option is 00
\* for None and 01 then the image of x for Some(x).  For two values of one
\* shape in which no string but the final field of the whole key contains a
\* NUL, the order of the images is the order of the values field by field,
\* None below Some.
CompositeOrder ==
    /\ \A e \in Encoders :
          (result[e] = "ok" /\ object[e].ty \in KeyTypes) =>
              Image(e) = Flat(object[e])
    /\ (BothKey /\ NulOnlyLast(object[1]) /\ NulOnlyLast(object[2])) =>
          SeqCmp(Image(1), Image(2)) = ValueCmp(object[1], object[2])

\* (42u8, "fizz") against (42u8, "a\0"): equal first fields, a final string
\* with a NUL.
CompositeOrderWitness ==
    /\ BothKey
    /\ object[1] = Tuple(<<FortyTwo, Fizz>>)
    /\ object[2] = Tuple(<<FortyTwo, Scalar("str", <<97, 0>>)>>)
    /\ Image(1) = <<42, 102, 105, 122, 122, 0>>
    /\ Image(2) = <<42, 97, 0, 0>>
    /\ NulOnlyLast(object[2])
    /\ ValueCmp(object[1], object[2]) = 1
    /\ SeqCmp(Image(1), Image(2)) = 1


(***************************************************************************)
(* Enums: order and format.                                                *)
(***************************************************************************)
\* enum TestEnum { A(u32, String), B, C(int) }, declared under the name
\* given.
TestEnum(name) ==
    {Variant(name, 0, fs) : fs \in Product(<<K("u32"), K("str")>>)}
    \cup {Variant(name, 1, <<>>)}
    \cup {Variant(name, 2, fs) : fs \in Product(<<K("int")>>)}

\* The first index whose tag takes two bytes.
WideTag == 16

\* TestEnum with variants appended: unit variants up to index WideTag - 2,
\* then P(bool), Q(bool) and a unit variant at WideTag - 1 .. WideTag + 1.
TestEnumExt ==
    TestEnum("TestEnumExt")
    \cup {Variant("TestEnumExt", i, <<>>) : i \in 3..(WideTag - 2)}
    \cup {Variant("TestEnumExt", WideTag - 1, fs) : fs \in Product(<<K("bool")>>)}
    \cup {Variant("TestEnumExt", WideTag, fs) : fs \in Product(<<K("bool")>>)}
    \cup {Variant("TestEnumExt", WideTag + 1, <<>>)}

\* enum StrEnum { S(String, u8), T { s: String } }.
StrEnum ==
    {Variant("StrEnum", 0, fs) : fs \in Product(<<K("str"), K("u8")>>)}
    \cup {StructVariant("StrEnum", 1, fs) : fs \in Product(<<K("str")>>)}

EnumTypes == {TestEnum("TestEnum"), TestEnumExt, StrEnum}

\* Pairs of one enum, and pairs of TestEnum and its extension.
InitEnum == InitWith({TestEnum("TestEnum") \cup TestEnumExt, StrEnum})
SpecEnum == InitEnum /\ [][Next]_vars

IsEnum(v) == v.ty \in {"enum", "enum_struct"}
BothEnum == Done /\ IsEnum(object[1]) /\ IsEnum(object[2])
SameEnum == \E T \in EnumTypes : object[1] \in T /\ object[2] \in T

\* The tag of index i and the images of the payload fields, nothing else.
EnumImage(v) ==
    LET cat[i \in 0..Len(v.sub)] ==
            IF i = 0 THEN emit_var_u64(MemWriter, v.data).buf
            ELSE cat[i - 1] \o Flat(v.sub[i])
    IN  cat[Len(v.sub)]

\* The image is the tag and the payload; the tag is one byte, the index
\* itself, exactly when the index is below 16; values of the same index and
\* payload have the same image, whatever the enum and its later variants.
EnumFormat ==
    /\ \A e \in Encoders :
          (result[e] = "ok" /\ IsEnum(object[e])) =>
              \A v \in {object[e]}, img \in {Image(e)}, payload \in {Flat(Tuple(object[e].sub))} :
                  /\ img = EnumImage(v)
                  /\ Lt(v.data, Lit(64, WideTag)) =>
                        img = BeBytes(Trunc(v.data, 8)) \o payload
                  /\ Lt(v.data, Lit(64, WideTag)) <=> Len(img) = 1 + Len(payload)
    /\ (BothEnum /\ object[1].data = object[2].data /\ object[1].sub = object[2].sub) =>
          Image(1) = Image(2)

\* C10 as stated: for every pair of values of one enum, the order of the
\* images is the order by variant index, then payload field by field.
EnumOrderAnyPayload ==
    /\ EnumFormat
    /\ (BothEnum /\ SameEnum) =>
          SeqCmp(Image(1), Image(2)) = ValueCmp(object[1], object[2])

\* C10, amended: the image of a variant value is emit_var_u64(index of the
\* variant) followed by the images of the payload fields in order, and
\* nothing else; the tag is a single byte whenever the index is below 16, and
\* a value keeps its image when variants are appended to the enum.  For two
\* values of one enum in which no string other than the final field contains
\* a NUL, the order of the images is the order by variant index, then
\* payload field by field.
EnumOrder ==
    /\ EnumFormat
    /\ (BothEnum /\ SameEnum /\ NulOnlyLast(object[1]) /\ NulOnlyLast(object[2])) =>
          SeqCmp(Image(1), Image(2)) = ValueCmp(object[1], object[2])

\* Q(true) of index 16 above P(true) of index 15: a two-byte tag above a
\* one-byte tag.
EnumOrderWitness ==
    /\ BothEnum
    /\ SameEnum
    /\ object[1] = Variant("TestEnumExt", WideTag, <<Scalar("bool", TRUE)>>)
    /\ object[2] = Variant("TestEnumExt", WideTag - 1, <<Scalar("bool", TRUE)>>)
    /\ Image(1) = <<16, 16, 1>>
    /\ Image(2) = <<15, 1>>
    /\ ValueCmp(object[1], object[2]) = 1
    /\ SeqCmp(Image(1), Image(2)) = 1


(***************************************************************************)
(* Sequences and maps.                                                     *)
(***************************************************************************)
MaxSeqLen == 2

\* The elements, keys and values of the sequences and maps tried.
Elems == {Scalar("u8", Lit(8, 1)), Scalar("u8", Lit(8, 255))}

\* Vec<u8> of at most MaxSeqLen elements; maps of no or one entry (key,
\* value); and a driver that announces a lone element, key or value.
Seqs == {Composite("seq", "", es) : es \in UNION {[1..l -> Elems] : l \in 0..MaxSeqLen}}
Maps == {Composite("map", "", es) : es \in {<<>>} \cup [1..2 -> Elems]}
LoneElts == {Composite(ty, "", <<x>>) : ty \in {"seq_elt", "map_elt_key", "map_elt_val"}, x \in Elems}

\* Sequences and maps alone, and as a field after and before a u8, in an
\* option and in a variant; tuples of two u8 beside them.
SeqValues ==
    LET U == Seqs \cup Maps
    IN  U \cup LoneElts
        \cup {Tuple(<<x, u>>) : x \in Elems, u \in U}
        \cup {Tuple(<<u, x>>) : x \in Elems, u \in U}
        \cup {Some(u) : u \in U}
        \cup {Variant("WithSeq", 1, <<u>>) : u \in U}
        \cup {Tuple(<<x, y>>) : x \in Elems, y \in Elems}

InitSeq == InitWith({SeqValues})
SpecSeq == InitSeq /\ [][Next]_vars

Unsupported(v) == v.ty \in {"seq", "map", "map_elt_key", "map_elt_val"}

RECURSIVE ContainsUnsupported(_)
ContainsUnsupported(v) ==
    Unsupported(v) \/ \E i \in 1..Len(v.sub) : ContainsUnsupported(v.sub[i])

RECURSIVE Before(_)
\* The image of what comes before the first sequence or map of v (of all
\* of v, if it has none).
Before(v) ==
    IF Unsupported(v) THEN <<>>
    ELSE IF v.sub = <<>> /\ v.ty # "option" THEN Flat(v)
    ELSE LET head == IF v.ty = "option" THEN (IF v.sub = <<>> THEN <<0>> ELSE <<1>>)
                     ELSE IF IsEnum(v) THEN Flat(Scalar("uint", v.data))
                     ELSE <<>>
             cat[i \in 0..Len(v.sub)] ==
                 IF i = 0 THEN head
                 ELSE IF \E j \in 1..(i - 1) : ContainsUnsupported(v.sub[j]) THEN cat[i - 1]
                 ELSE cat[i - 1] \o Before(v.sub[i])
         IN  cat[Len(v.sub)]

\* C11: when the driver announces a sequence (emit_seq) or a map (emit_map,
\* emit_map_elt_key, emit_map_elt_val) the encoder fails at once: the
\* closure does not run and no byte is written, so the sink holds exactly
\* the image of what came before, and a value with a sequence or a map in it
\* never has a successful result.
UnsupportedRejected ==
    \A e \in Encoders :
        result[e] # "none" =>
            IF ContainsUnsupported(object[e])
            THEN /\ result[e] = "fail"
                 /\ Image(e) = Before(object[e])
                 /\ writer[e].calls = Len(Image(e))
                 /\ ~ writer[e].err
            ELSE /\ result[e] = "ok"
                 /\ Image(e) = Flat(object[e])

\* (1u8, vec![255u8]): the u8 is in the sink, the element is not.
UnsupportedRejectedWitness ==
    /\ object[1] = Tuple(<<Scalar("u8", Lit(8, 1)), Composite("seq", "", <<Scalar("u8", Lit(8, 255))>>)>>)
    /\ result[1] = "fail"
    /\ Image(1) = <<1>>
    /\ result[2] = "none"


(***************************************************************************)
(* A sink that fails: Encoder::new(writer) over a writer of the caller.    *)
(***************************************************************************)
MaxFailAt == 4

\* A sink whose k-th write fails (Never: none does).
Sink(k) == [MemWriter EXCEPT !.fail_at = k]

\* A variable-length integer of every length, of both signs; strings; a
\* write of no bytes (unit); single writes of 1 to 8 bytes; options, variants
\* with one-byte and two-byte tags, tuples.
IoValues ==
    LET a == Scalar("str", <<97>>)
        one == Scalar("u8", Lit(8, 1))
    IN  {Scalar("uint", Pow2(64, k)) : k \in VarUExps \cup {0}}
        \cup {Scalar("int", Pow2(64, k)) : k \in (VarIExps \ {63}) \cup {0}}
        \cup {Scalar("int", BitNot(Pow2(64, k))) : k \in (VarIExps \ {63}) \cup {0}}
        \cup KeyScalars("str", 1)
        \cup {Scalar("nil", <<>>), Scalar("bool", TRUE), Scalar("char", 2048),
              Scalar("u32", Lit(32, 1)), Scalar("f64", Lit(64, 1))}
        \cup {None, Some(a), Some(one), Some(Some(one))}
        \cup {Variant("Io", 1, <<a>>), Variant("Io", WideTag, <<one>>),
              Variant("Io", 2, <<>>), StructVariant("Io", 3, <<one, a>>)}
        \cup {Tuple(<<a, one>>), Tuple(<<Scalar("nil", <<>>), one>>),
              Composite("struct", "Io", <<Scalar("uint", Pow2(64, 12)), a>>)}

InitIo ==
    /\ object \in [Encoders -> IoValues]
    /\ \E k \in 0..MaxFailAt : writer = [e \in Encoders |-> Sink(k)]
    /\ result = [e \in Encoders |-> "none"]

SpecIo == InitIo /\ [][Next]_vars

\* The sizes of the writes of a variable-length integer of len bytes.
VarSizes(len) ==
    CASE len = 3 -> <<1, 2>>
      [] len = 5 -> <<1, 4>>
      [] len = 6 -> <<2, 4>>
      [] len = 7 -> <<1, 2, 4>>
      [] len = 9 -> <<1, 8>>
      [] OTHER -> <<len>>

RECURSIVE WriteSizes(_)
\* The sizes of the writes to the sink that encoding v takes, in order.
WriteSizes(v) ==
    CASE v.ty \in {"uint", "enum", "enum_struct"} \cup KeyTypes ->
            LET head == CASE v.ty = "uint" -> VarSizes(1 + VarULen(v.data))
                          [] IsEnum(v) -> VarSizes(1 + VarULen(v.data))
                          [] v.ty = "option" -> <<1>>
                          [] OTHER -> <<>>
                cat[i \in 0..Len(v.sub)] ==
                    IF i = 0 THEN head ELSE cat[i - 1] \o WriteSizes(v.sub[i])
            IN  cat[Len(v.sub)]
      [] v.ty = "int" -> VarSizes(1 + VarILen(VarIMagnitude(v.data)))
      [] v.ty = "str" -> <<Len(v.data), 1>>
      [] v.ty = "nil" -> <<0>>
      [] v.ty = "bool" -> <<1>>
      [] v.ty = "char" -> <<Len(Utf8(v.data))>>
      [] OTHER -> <<Width(v.ty) \div 8>>

\* The sum of the first n sizes.
SumSizes(sizes, n) ==
    LET sum[i \in 0..n] == IF i = 0 THEN 0 ELSE sum[i - 1] + sizes[i]
    IN  sum[n]

\* C12: with a sink whose k-th write fails, whatever k is: the operation
\* returns the error at the first failed write and asks the sink for no
\* write after it (emit_str writes no terminator after a failed write of the
\* bytes, emit_var_u64 and emit_var_i64 stop at the failed part,
\* emit_enum_variant and emit_option_some do not run the payload after a
\* failed tag or presence byte); the bytes of the writes before it stay in
\* the sink.  A sink that fails no write of the value holds the whole image.
IoFailureNoRollback ==
    \A e \in Encoders :
        result[e] # "none" =>
            \A w \in {writer[e]}, sizes \in {WriteSizes(object[e])}, full \in {Flat(object[e])} :
                /\ SumSizes(sizes, Len(sizes)) = Len(full)
                /\ IF w.fail_at # Never /\ w.fail_at <= Len(sizes)
                   THEN /\ result[e] = "err"
                        /\ w.calls = w.fail_at
                        /\ w.buf = SubSeq(full, 1, SumSizes(sizes, w.fail_at - 1))
                   ELSE /\ result[e] = "ok"
                        /\ w.calls = Len(sizes)
                        /\ w.buf = full

\* Some("a") into a sink whose second write fails: 01 is in the sink, the
\* string is not; then the caller encodes 2^12 as a struct field with "a"
\* into such a sink: the first byte of the integer stays.
IoFailureNoRollbackWitness ==
    /\ object[1] = Some(Scalar("str", <<97>>))
    /\ object[2] = Composite("struct", "Io", <<Scalar("uint", Pow2(64, 12)), Scalar("str", <<97>>)>>)
    /\ writer[1].fail_at = 2
    /\ result[1] = "err"
    /\ Image(1) = <<1>>
    /\ result[2] = "err"
    /\ Image(2) = <<32>>
    /\ writer[2].calls = 2


(***************************************************************************)
(* Variable-length signed integers: the buckets.                           *)
(***************************************************************************)
\* n_0 .. n_8 = 3, 11, 19, 27, 35, 43, 51, 59, 63.
BucketExp(l) == IF l = 8 THEN 63 ELSE 8 * l + 3

\* -2^k as a word of 64 bits: ones down to bit k.
NegPow2(k) == Shl(BitNot(Lit(64, 0)), k)

\* -2^n < v <= 2^n, n = n_l (2^63 is above every i64).
InOpenClosedBucket(v, l) ==
    IF l = 8 THEN v # IntMin(64)
    ELSE \A lo \in {NegPow2(BucketExp(l))}, hi \in {Pow2(64, BucketExp(l))} :
            SignedCmp(lo, v) = -1 /\ SignedCmp(v, hi) <= 0

\* -2^n <= v < 2^n, n = n_l.
InClosedOpenBucket(v, l) ==
    IF l = 8 THEN TRUE
    ELSE \A lo \in {NegPow2(BucketExp(l))}, hi \in {Pow2(64, BucketExp(l))} :
            SignedCmp(lo, v) <= 0 /\ SignedCmp(v, hi) = -1

\* C13 as stated: the image of v has 1 + L bytes, L the least index with
\* -2^(n_L) < v <= 2^(n_L): 2^3 in 1 byte, -2^3 in 2 bytes.
VarI64BucketsOpenClosed ==
    \A e \in Encoders :
        (result[e] = "ok" /\ object[e].ty = "int") =>
            \A B \in {{l \in 0..8 : InOpenClosedBucket(object[e].data, l)}} :
                \E l \in B : (\A k \in B : l <= k) /\ Len(Image(e)) = 1 + l

\* C13, amended: with n_0 .. n_8 = 3, 11, 19, 27, 35, 43, 51, 59, 63, the
\* image of every i64 v has 1 + L bytes, L the least index with
\* -2^(n_L) <= v < 2^(n_L): 2^3 takes 2 bytes and -2^3 takes 1 byte.
VarI64Buckets ==
    \A e \in Encoders :
        (result[e] = "ok" /\ object[e].ty = "int") =>
            \A B \in {{l \in 0..8 : InClosedOpenBucket(object[e].data, l)}} :
                \E l \in B : (\A k \in B : l <= k) /\ Len(Image(e)) = 1 + l

\* 2^3 in two bytes, -2^3 in one.
VarI64BucketsWitness ==
    /\ BothVarI
    /\ object[1].data = I64(8)
    /\ object[2].data = I64(-8)
    /\ Image(1) = <<136, 8>>
    /\ Image(2) = <<120>>


(***************************************************************************)
(* Variable-length integers are self-delimiting.                           *)
(***************************************************************************)
InitVar == InitWith({VarUValues, VarIValues})
SpecVar == InitVar /\ [][Next]_vars

BothVar == Done /\ object[1].ty \in {"uint", "int"} /\ object[2].ty = object[1].ty

IsPrefix(s, t) == Len(s) <= Len(t) /\ SubSeq(t, 1, Len(s)) = s

\* Bytes of a field that follows: none, the least, the greatest, two.
FurtherBytes == {<<>>, <<0>>, <<255>>, <<0, 255>>}

\* C14: the first byte tells the length: an emit_var_u64 image has
\* 1 + (first byte >> 4) bytes, an emit_var_i64 image 1 + ((b >> 3) & 0xF)
\* bytes, b the first byte if its top bit is 1 and its complement otherwise.
\* Of two distinct values neither image is a prefix of the other, and the
\* images compare in the order of the values whatever bytes follow each.
VarSelfDelimiting ==
    /\ \A e \in Encoders :
          (result[e] = "ok" /\ object[e].ty = "uint") =>
              Len(Image(e)) = 1 + (Image(e)[1] \div 16)
    /\ \A e \in Encoders :
          (result[e] = "ok" /\ object[e].ty = "int") =>
              \A b \in {IF Image(e)[1] >= 128 THEN Image(e)[1] ELSE 255 - Image(e)[1]} :
                  Len(Image(e)) = 1 + ((b \div 8) % 16)
    /\ (BothVar /\ object[1] # object[2]) =>
          \A x \in {Image(1)}, y \in {Image(2)}, c \in {ValueCmp(object[1], object[2])} :
              /\ ~ IsPrefix(x, y)
              /\ ~ IsPrefix(y, x)
              /\ \A s \in FurtherBytes, t \in FurtherBytes : SeqCmp(x \o s, y \o t) = c

\* 15 in one byte and 16 in two: 0F then FF is below 10 10.
VarSelfDelimitingWitness ==
    /\ BothVar
    /\ object[1] = Scalar("uint", Lit(64, 15))
    /\ object[2] = Scalar("uint", Lit(64, 16))
    /\ Image(1) = <<15>>
    /\ Image(2) = <<16, 16>>
    /\ SeqCmp(Image(1) \o <<255>>, Image(2)) = -1


(***************************************************************************)
(* NUL bytes in strings are not checked.                                   *)
(***************************************************************************)
IsStrU8(v) == v.ty = "tuple" /\ Len(v.sub) = 2 /\ v.sub[1].ty = "str" /\ v.sub[2].ty = "u8"

\* C15: emit_str accepts a string with a NUL byte in it and succeeds: the
\* encoding of a key with such a string, in any position, is ok, and a tuple
\* (Str, u8) is written as the bytes of the string, NUL bytes included, 00 and
\* the u8.  (That the order then breaks for some a < b of shape (Str, u8) is
\* the state NulBreaksOrderWitness, which is reached.)
NulNotChecked ==
    \A e \in Encoders :
        (result[e] # "none" /\ \E i \in 1..Len(Leaves(object[e])) : HasNul(Leaves(object[e])[i])) =>
            /\ result[e] = "ok"
            /\ IsStrU8(object[e]) =>
                  Image(e) = object[e].sub[1].data \o <<0>> \o BeBytes(object[e].sub[2].data)

\* a = ("", 1) < b = ("\0", 0), and encode(a) = 00 01 > encode(b) = 00 00 00.
NulBreaksOrderWitness ==
    /\ BothKey
    /\ IsStrU8(object[1])
    /\ IsStrU8(object[2])
    /\ object[1] = Tuple(<<Scalar("str", <<>>), Scalar("u8", Lit(8, 1))>>)
    /\ object[2] = Tuple(<<Scalar("str", <<0>>), Scalar("u8", Lit(8, 0))>>)
    /\ HasNul(object[2].sub[1])
    /\ ValueCmp(object[1], object[2]) = -1
    /\ Image(1) = <<0, 1>>
    /\ Image(2) = <<0, 0, 0>>
    /\ SeqCmp(Image(1), Image(2)) = 1


(***************************************************************************)
(* Signed fixed-width integers as the documentation of Encoder has them.   *)
(***************************************************************************)
\* C16: for i8, i16, i32 and i64 the image of v is the big-endian bytes of
\* the bitwise complement of v, every bit of v inverted, in 1, 2, 4 and 8
\* bytes.
SignedComplementImage ==
    \A e \in Encoders :
        (result[e] = "ok" /\ object[e].ty \in SignedTypes) =>
            /\ Len(Image(e)) = Width(object[e].ty) \div 8
            /\ Image(e) = BeBytes(BitNot(object[e].data))

=============================================================================
